---- MODULE Spec2Model ----
(***************************************************************************)
(* Model of setup.py: the project setup wizard.  One run of main() is a    *)
(* fixed pipeline of steps; every step runs external commands through      *)
(* run_command, whose exit statuses are chosen by the environment.  The    *)
(* working directory, the git configuration and the GitHub account outlive *)
(* a run, so the wizard can be run again on the same directory.            *)
(***************************************************************************)
EXTENDS Integers, Sequences, FiniteSets, TLC

VARIABLES
    pc,            \* position of the process in main(), or "done" / "exited"
    exitCode,      \* exit status of the process once it has ended, else -1
    runNo,         \* number of the current run on this directory
    settled,       \* this run started after a completed run left every step satisfied
    repo_name,     \* main(): repo_name
    visInput,      \* main(): the raw text typed at the visibility prompt
    visibility,    \* main(): visibility after line 188
    log,           \* external effects of this run, in order
    out,           \* messages printed by this run
    steps,         \* steps of main() entered by this run, in order
    env,           \* [shell, gh]: is a shell / the gh executable available
    cfg,           \* [name, email]: git config user.name / user.email non-empty
    fs,            \* working directory: .git, .gitignore, LICENSE, README.md, venv, requirements.txt
    authenticated, \* gh holds a valid login
    remote         \* the GitHub repository and the origin remote exist

vars == <<pc, exitCode, runNo, settled, repo_name, visInput, visibility, log, out,
          steps, env, cfg, fs, authenticated, remote>>

-----------------------------------------------------------------------------
(* Bounds and input domains *)

MaxRuns == 2

ExitCodes == {0, 2}
CommandNotFound == {127}
RepoNames == {"proj"}
UserInputs == {"", "octocat"}
DownloadOutcomes == {"ok", "fail", "partial"}

PUBLIC == <<"p", "u", "b", "l", "i", "c">>
PRIVATE == <<"p", "r", "i", "v", "a", "t", "e">>

\* Answers to the visibility prompt.
PromptInputs ==
    { <<>>,
      <<"P", "R", "I", "V", "A", "T", "E", "\t", " ">> }

VisibilityInputs ==
    PromptInputs \cup
    { PUBLIC,
      PRIVATE,
      <<" ", "P", "u", "b", "l", "i", "c">>,
      <<"\t", "p", "r", "i", "v", "a", "t", "e", " ">>,
      <<" ", " ">>,
      <<"p", "r", "i", "v", " ", "a", "t", "e">>,
      <<"p", "u", "b">>,
      <<"p", "u", "b", "l", "i", "c", "p", "r", "i", "v", "a", "t", "e">>,
      <<"i", "n", "t", "e", "r", "n", "a", "l">> }

-----------------------------------------------------------------------------
(* str.strip() and str.lower() on the characters the inputs use *)

Whitespace == {" ", "\t"}

RECURSIVE lstrip(_)
lstrip(s) ==
    IF s # <<>> /\ Head(s) \in Whitespace THEN lstrip(Tail(s)) ELSE s

RECURSIVE rstrip(_)
rstrip(s) ==
    IF s # <<>> /\ s[Len(s)] \in Whitespace
    THEN rstrip(SubSeq(s, 1, Len(s) - 1))
    ELSE s

strip(s) == rstrip(lstrip(s))

lower_char(c) ==
    CASE c = "P" -> "p" [] c = "U" -> "u" [] c = "B" -> "b" [] c = "L" -> "l"
      [] c = "I" -> "i" [] c = "C" -> "c" [] c = "R" -> "r" [] c = "V" -> "v"
      [] c = "A" -> "a" [] c = "T" -> "t" [] c = "E" -> "e" [] OTHER -> c

lower(s) == [i \in 1..Len(s) |-> lower_char(s[i])]

EffectiveVisibilityNoLower(raw) ==
    LET v == strip(raw) IN IF v \in {PUBLIC, PRIVATE} THEN v ELSE PUBLIC

\* main(), lines 185-188
EffectiveVisibility(raw) ==
    LET v == lower(strip(raw)) IN IF v \in {PUBLIC, PRIVATE} THEN v ELSE PUBLIC

-----------------------------------------------------------------------------
(* run_command *)

Entry(kind, op, rc, check, live, vis) ==
    [kind |-> kind, op |-> op, rc |-> rc, check |-> check, live |-> live, vis |-> vis]

run_command_ignores_check(command, check, live_output, rc) ==
    IF rc # 0
    THEN [exits |-> TRUE, status |-> IF live_output THEN rc ELSE 1,
          printed |-> IF live_output THEN {} ELSE {"error"}]
    ELSE [exits |-> FALSE, status |-> 0, printed |-> {}]

\* Outcome of run_command for a command that ends with exit status rc.
run_command(command, check, live_output, rc) ==
    IF live_output
    THEN IF rc # 0 /\ check
         THEN [exits |-> TRUE, status |-> rc, printed |-> {}]
         ELSE [exits |-> FALSE, status |-> 0, printed |-> {}]
    ELSE IF check /\ rc # 0
         THEN [exits |-> TRUE, status |-> 1, printed |-> {"error"}]
         ELSE [exits |-> FALSE, status |-> 0, printed |-> {}]

\* The running process: what it has done and printed, and whether it has exited.
Proc == [log |-> log, out |-> out, term |-> FALSE, status |-> 0]

\* A call of run_command by a process that is still running.
CallV(p, command, check, live_output, rc, vis) ==
    IF p.term THEN p
    ELSE LET r == run_command(command, check, live_output, rc) IN
         [log |-> Append(p.log, Entry("cmd", command, rc, check, live_output, vis)),
          out |-> p.out \cup r.printed,
          term |-> r.exits,
          status |-> r.status]

Call(p, command, check, live_output, rc) == CallV(p, command, check, live_output, rc, <<>>)

\* print(), by a process that is still running.
Say(p, msg) == IF p.term THEN p ELSE [p EXCEPT !.out = @ \cup {msg}]

\* Exit statuses the environment can give a command.
IsGh(command) ==
    command \in {"gh --version", "gh auth status", "gh auth login", "gh repo create", "gh api user"}

Rc(command) ==
    IF IsGh(command) /\ ~env.gh THEN CommandNotFound
    ELSE IF command = "gh --version" THEN {0}
    ELSE IF command = "gh auth status" THEN (IF authenticated THEN {0} ELSE {1})
    ELSE ExitCodes

-----------------------------------------------------------------------------
(* main(): the order of the steps *)

StepOrder ==
    << "check_gh_installed", "setup_git_config", "initialize_local_repo",
       "create_basic_files", "github_auth", "create_github_repo", "setup_virtualenv" >>

main_next_auth_last(step) ==
    CASE step = "check_gh_installed" -> "setup_git_config"
      [] step = "setup_git_config" -> "initialize_local_repo"
      [] step = "initialize_local_repo" -> "create_basic_files"
      [] step = "create_basic_files" -> "create_github_repo"
      [] step = "create_github_repo" -> "github_auth"
      [] step = "github_auth" -> "setup_virtualenv"
      [] step = "setup_virtualenv" -> "done"

\* main(), lines 191-209: the step that follows a step that returned.
main_next(step) ==
    CASE step = "check_gh_installed" -> "setup_git_config"
      [] step = "setup_git_config" -> "initialize_local_repo"
      [] step = "initialize_local_repo" -> "create_basic_files"
      [] step = "create_basic_files" -> "github_auth"
      [] step = "github_auth" -> "create_github_repo"
      [] step = "create_github_repo" -> "setup_virtualenv"
      [] step = "setup_virtualenv" -> "done"

\* The end of a step: the process has exited inside it, or main() goes on.
Finish(p, step) ==
    /\ log' = p.log
    /\ steps' = Append(steps, step)
    /\ IF p.term
       THEN /\ pc' = "exited"
            /\ exitCode' = p.status
            /\ out' = p.out
       ELSE /\ pc' = main_next(step)
            /\ exitCode' = IF main_next(step) = "done" THEN 0 ELSE exitCode
            /\ out' = IF main_next(step) = "done" THEN p.out \cup {"complete"} ELSE p.out

-----------------------------------------------------------------------------
(* Initial state: a project directory before the first run.  LICENSE, venv *)
(* and the remote repository are what earlier runs leave behind.          *)

Init ==
    /\ pc = "main"
    /\ exitCode = -1
    /\ runNo = 1
    /\ settled = FALSE
    /\ repo_name = ""
    /\ visInput = <<>>
    /\ visibility = <<>>
    /\ log = <<>>
    /\ out = {}
    /\ steps = <<>>
    /\ env \in {e \in [shell : BOOLEAN, gh : BOOLEAN] : e.gh => e.shell}
    /\ cfg \in [name : BOOLEAN, email : BOOLEAN]
    /\ fs \in [git : BOOLEAN, gitignore : {"absent", "user"}, license : {"absent"},
               readme : {"absent", "user"}, venv : {FALSE}, requirements : BOOLEAN]
    /\ authenticated \in BOOLEAN
    /\ remote = FALSE

-----------------------------------------------------------------------------
(* The steps *)

\* main(), lines 184-188
main_input(answers) ==
    /\ pc = "main"
    /\ \E name \in RepoNames, raw \in answers :
         /\ repo_name' = name
         /\ visInput' = raw
         /\ visibility' = EffectiveVisibility(raw)
    /\ pc' = "check_gh_installed"
    /\ UNCHANGED <<exitCode, runNo, settled, log, out, steps, env, cfg, fs,
                   authenticated, remote>>

\* check_gh_installed(), and main() lines 191-192
check_gh_installed ==
    /\ pc = "check_gh_installed"
    /\ IF env.shell
       THEN \E rc \in Rc("gh --version") :
              Finish(Call(Proc, "gh --version", FALSE, FALSE, rc), "check_gh_installed")
       ELSE \* FileNotFoundError: check_gh_installed returns False, main exits
            Finish([Proc EXCEPT !.out = @ \cup {"gh_missing"}, !.term = TRUE, !.status = 1],
                   "check_gh_installed")
    /\ UNCHANGED <<runNo, settled, repo_name, visInput, visibility, env, cfg, fs,
                   authenticated, remote>>

\* setup_git_config(), one key: lines 87-89 and 91-93
ConfigKey(p, readCmd, writeCmd, isSet, value, rcw) ==
    LET p1 == Call(p, readCmd, FALSE, FALSE, IF isSet THEN 0 ELSE 1)
        p2 == IF isSet THEN p1 ELSE Call(p1, writeCmd, TRUE, FALSE, rcw)
    IN  [p |-> p2,
         set |-> IF p.term \/ isSet THEN isSet ELSE (rcw = 0 /\ value # "")]

setup_git_config ==
    /\ pc = "setup_git_config"
    /\ \E username \in UserInputs, email \in UserInputs,
          rcn \in Rc("git config user.name <username>"),
          rce \in Rc("git config user.email <email>") :
         LET n == ConfigKey(Say(Proc, "checking_git_config"), "git config user.name",
                            "git config user.name <username>", cfg.name, username, rcn)
             e == ConfigKey(n.p, "git config user.email",
                            "git config user.email <email>", cfg.email, email, rce)
         IN  /\ cfg' = [name |-> n.set, email |-> e.set]
             /\ Finish(e.p, "setup_git_config")
    /\ UNCHANGED <<runNo, settled, repo_name, visInput, visibility, env, fs,
                   authenticated, remote>>

initialize_local_repo_always ==
    /\ pc = "initialize_local_repo"
    /\ \E rc \in Rc("git init -b main") :
         LET p1 == Call(Say(Proc, "initializing_git"), "git init -b main", TRUE, FALSE, rc)
         IN  /\ fs' = [fs EXCEPT !.git = @ \/ (rc = 0)]
             /\ Finish(Say(p1, "git_initialized"), "initialize_local_repo")
    /\ UNCHANGED <<runNo, settled, repo_name, visInput, visibility, env, cfg,
                   authenticated, remote>>

\* initialize_local_repo()
initialize_local_repo ==
    /\ pc = "initialize_local_repo"
    /\ IF fs.git
       THEN /\ Finish(Say(Proc, "git_exists"), "initialize_local_repo")
            /\ fs' = fs
       ELSE \E rc \in Rc("git init -b main") :
              LET p1 == Call(Say(Proc, "initializing_git"), "git init -b main", TRUE, FALSE, rc)
              IN  /\ fs' = [fs EXCEPT !.git = (rc = 0)]
                  /\ Finish(Say(p1, "git_initialized"), "initialize_local_repo")
    /\ UNCHANGED <<runNo, settled, repo_name, visInput, visibility, env, cfg,
                   authenticated, remote>>

DownloadMsg(filename, outcome) ==
    IF filename = ".gitignore"
    THEN (IF outcome = "ok" THEN "downloaded .gitignore" ELSE "download_failed .gitignore")
    ELSE (IF outcome = "ok" THEN "downloaded LICENSE" ELSE "download_failed LICENSE")

DownloadOp(filename) ==
    IF filename = ".gitignore" THEN "urlretrieve .gitignore" ELSE "urlretrieve LICENSE"

download_files_uncaught(p, filename, outcome) ==
    IF p.term THEN p
    ELSE [log |-> Append(p.log, Entry("download", DownloadOp(filename),
                                      IF outcome = "ok" THEN 0 ELSE 1, FALSE, FALSE, <<>>)),
          out |-> IF outcome = "ok" THEN p.out \cup {DownloadMsg(filename, outcome)} ELSE p.out,
          term |-> outcome # "ok",
          status |-> IF outcome = "ok" THEN 0 ELSE 1]

\* download_files(url, filename); outcome is what urlretrieve did
download_files(p, filename, outcome) ==
    IF p.term THEN p
    ELSE [p EXCEPT !.log = Append(@, Entry("download", DownloadOp(filename),
                                           IF outcome = "ok" THEN 0 ELSE 1, FALSE, FALSE, <<>>)),
                   !.out = @ \cup {DownloadMsg(filename, outcome)}]

\* What urlretrieve leaves at a path that did not exist.
Downloaded(outcome) ==
    CASE outcome = "ok" -> "template"
      [] outcome = "partial" -> "partial"
      [] outcome = "fail" -> "absent"

exists_never(content) == FALSE

\* os.path.exists(path) for a file of the working directory
exists(content) == content # "absent"

\* create_basic_files()
create_basic_files ==
    /\ pc = "create_basic_files"
    /\ \E og \in DownloadOutcomes, ol \in DownloadOutcomes :
         LET p0 == Say(Proc, "creating_basic_files")
             p1 == IF ~exists(fs.gitignore) THEN download_files(p0, ".gitignore", og) ELSE p0
             p2 == IF ~exists(fs.license) THEN download_files(p1, "LICENSE", ol) ELSE p1
             wr == ~p2.term /\ ~exists(fs.readme)
             p3 == IF wr
                   THEN Say([p2 EXCEPT !.log = Append(@, Entry("write", "write README.md", 0,
                                                              FALSE, FALSE, <<>>))],
                            "readme_created")
                   ELSE p2
         IN  /\ fs' = [fs EXCEPT
                         !.gitignore = IF ~exists(@) THEN Downloaded(og) ELSE @,
                         !.license = IF ~p1.term /\ ~exists(@) THEN Downloaded(ol) ELSE @,
                         !.readme = IF wr THEN "generated" ELSE @]
             /\ Finish(p3, "create_basic_files")
    /\ UNCHANGED <<runNo, settled, repo_name, visInput, visibility, env, cfg,
                   authenticated, remote>>

github_auth_login_tolerant ==
    /\ pc = "github_auth"
    /\ \E rcs \in Rc("gh auth status"), rcl \in Rc("gh auth login") :
         LET p1 == Call(Proc, "gh auth status", FALSE, FALSE, rcs)
             p2 == IF rcs # 0
                   THEN Call(Say(p1, "authenticating"), "gh auth login", FALSE, TRUE, rcl)
                   ELSE Say(p1, "auth_verified")
         IN  /\ authenticated' = (authenticated \/ (rcs # 0 /\ rcl = 0))
             /\ Finish(p2, "github_auth")
    /\ UNCHANGED <<runNo, settled, repo_name, visInput, visibility, env, cfg, fs, remote>>

\* github_auth()
github_auth ==
    /\ pc = "github_auth"
    /\ \E rcs \in Rc("gh auth status"), rcl \in Rc("gh auth login") :
         LET p1 == Call(Proc, "gh auth status", FALSE, FALSE, rcs)
             p2 == IF rcs # 0
                   THEN Call(Say(p1, "authenticating"), "gh auth login", TRUE, TRUE, rcl)
                   ELSE Say(p1, "auth_verified")
         IN  /\ authenticated' = (authenticated \/ (rcs # 0 /\ rcl = 0))
             /\ Finish(p2, "github_auth")
    /\ UNCHANGED <<runNo, settled, repo_name, visInput, visibility, env, cfg, fs, remote>>

\* create_github_repo(repo_name, visibility)
create_github_repo ==
    /\ pc = "create_github_repo"
    /\ \E ra \in Rc("git add ."), rm \in Rc("git commit"),
          rr \in Rc("gh repo create"), ru \in Rc("gh api user") :
         LET p0 == Say(Proc, "creating_repository")
             p1 == Call(p0, "git add .", TRUE, FALSE, ra)
             p2 == Call(p1, "git commit", TRUE, FALSE, rm)
             p3 == CallV(p2, "gh repo create", TRUE, FALSE, rr, visibility)
             p4 == Call(p3, "gh api user", TRUE, FALSE, ru)
         IN  /\ remote' = (remote \/ (~p2.term /\ rr = 0))
             /\ Finish(Say(p4, "repository_created"), "create_github_repo")
    /\ UNCHANGED <<runNo, settled, repo_name, visInput, visibility, env, cfg, fs,
                   authenticated>>

\* setup_virtualenv(), and main() lines 208-211
setup_virtualenv ==
    /\ pc = "setup_virtualenv"
    /\ \E rv \in Rc("python -m venv venv"), rp \in Rc("pip install --upgrade pip"),
          rr \in Rc("pip install -r requirements.txt") :
         LET p1 == IF ~fs.venv
                   THEN Say(Call(Say(Proc, "creating_venv"), "python -m venv venv",
                                 TRUE, FALSE, rv), "venv_created")
                   ELSE Say(Proc, "venv_exists")
             p2 == Say(Call(Say(p1, "upgrading_pip"), "pip install --upgrade pip",
                            TRUE, TRUE, rp), "pip_upgraded")
             p3 == IF fs.requirements
                   THEN Say(Call(Say(p2, "installing_dependencies"),
                                 "pip install -r requirements.txt", TRUE, TRUE, rr),
                            "dependencies_installed")
                   ELSE Say(p2, "no_requirements")
         IN  /\ fs' = [fs EXCEPT !.venv = @ \/ (rv = 0)]
             /\ Finish(p3, "setup_virtualenv")
    /\ UNCHANGED <<runNo, settled, repo_name, visInput, visibility, env, cfg,
                   authenticated, remote>>

\* Every precondition the steps test is satisfied.
AllSatisfied ==
    /\ cfg.name /\ cfg.email
    /\ fs.git /\ fs.venv
    /\ exists(fs.gitignore) /\ exists(fs.license) /\ exists(fs.readme)
    /\ authenticated /\ remote

\* The operator runs the wizard again in the same directory.
RunAgain ==
    /\ pc \in {"done", "exited"}
    /\ runNo < MaxRuns
    /\ runNo' = runNo + 1
    /\ settled' = (pc = "done" /\ AllSatisfied)
    /\ pc' = "main"
    /\ exitCode' = -1
    /\ repo_name' = ""
    /\ visInput' = <<>>
    /\ visibility' = <<>>
    /\ log' = <<>>
    /\ out' = {}
    /\ steps' = <<>>
    /\ UNCHANGED <<env, cfg, fs, authenticated, remote>>

Next ==
    \/ main_input(PromptInputs)
    \/ check_gh_installed
    \/ setup_git_config
    \/ initialize_local_repo
    \/ create_basic_files
    \/ github_auth
    \/ create_github_repo
    \/ setup_virtualenv
    \/ RunAgain

Spec == Init /\ [][Next]_vars

\* The same program on a new directory, with every answer to the visibility prompt.
InitVisibility ==
    /\ Init
    /\ env = [shell |-> TRUE, gh |-> TRUE]
    /\ cfg = [name |-> FALSE, email |-> FALSE]
    /\ fs = [git |-> FALSE, gitignore |-> "absent", license |-> "absent",
             readme |-> "absent", venv |-> FALSE, requirements |-> TRUE]
    /\ ~authenticated

NextVisibility ==
    \/ main_input(VisibilityInputs)
    \/ check_gh_installed
    \/ setup_git_config
    \/ initialize_local_repo
    \/ create_basic_files
    \/ github_auth
    \/ create_github_repo
    \/ setup_virtualenv
    \/ RunAgain

SpecVisibility == InitVisibility /\ [][NextVisibility]_vars

-----------------------------------------------------------------------------
(* Properties *)

LastEntry == log[Len(log)]

\* Effects on the working directory, the git configuration or the network.
ChangeOps ==
    { "git config user.name <username>", "git config user.email <email>",
      "git init -b main", "urlretrieve .gitignore", "urlretrieve LICENSE",
      "write README.md", "gh auth login", "gh repo create", "python -m venv venv" }

\* A log entry that changed something: a command of ChangeOps that succeeded,
\* a download that was attempted, a file that was written.
Changed(e) == e.op \in ChangeOps /\ (e.kind = "cmd" => e.rc = 0)

\* Everything a step does beyond testing its precondition.
ActionOps ==
    ChangeOps \cup { "git add .", "git commit", "gh api user",
                     "pip install --upgrade pip", "pip install -r requirements.txt" }

\* C1: if gh is absent, the process exits with a nonzero status before any
\* change to the file system and before any network action: the run never
\* gets past the tool-availability check.
C1_ExitBeforeAnyChange ==
    ~env.gh =>
        /\ \A i \in DOMAIN log : ~Changed(log[i])
        /\ pc = "exited" => exitCode # 0
        /\ pc # "done"

\* C2: no step of any run overwrites an existing .gitignore or README.md: a
\* file that exists keeps its content, whatever the other file checks and
\* downloads do.
C2_NoOverwrite ==
    [][ /\ fs.gitignore # "absent" => fs'.gitignore = fs.gitignore
        /\ fs.readme # "absent" => fs'.readme = fs.readme ]_vars

C2_Witness ==
    /\ runNo = 2
    /\ pc = "github_auth"
    /\ fs.gitignore = "user"
    /\ fs.readme = "user"
    /\ "download_failed LICENSE" \in out

\* C3: every step acts only if its precondition is unmet, so a run that
\* starts after a completed run left every precondition satisfied performs
\* no action again.
C3_SecondRunNoAction ==
    settled => \A i \in DOMAIN log : log[i].op \notin ActionOps

\* C4: the process exits with the nonzero exit status of the external command
\* that failed, in captured and in live-output mode, and with status 0 only
\* when the whole pipeline completed.
C4_ExitStatusPropagated ==
    /\ (pc = "exited" /\ log # <<>>) => (exitCode # 0 /\ exitCode = LastEntry.rc)
    /\ exitCode = 0 => pc = "done"

\* C5 as claimed: a command that fails with check=True has its captured error
\* text reported before the process terminates, in captured and in
\* live-output mode.
C5_ErrorTextReported ==
    (pc = "exited" /\ log # <<>> /\ LastEntry.check /\ LastEntry.rc # 0)
        => "error" \in out

NoRollback ==
    /\ fs.git => fs'.git
    /\ fs.venv => fs'.venv
    /\ fs.gitignore # "absent" => fs'.gitignore = fs.gitignore
    /\ fs.license # "absent" => fs'.license = fs.license
    /\ fs.readme # "absent" => fs'.readme = fs.readme
    /\ cfg.name => cfg'.name
    /\ cfg.email => cfg'.email
    /\ authenticated => authenticated'
    /\ remote => remote'

\* C5, amended: a command that fails with check=True is the last thing the
\* process does: the process has exited and no later command was run; the
\* error text is printed in captured mode and not in live-output mode (the
\* command's own output was streamed); a command that fails with check=False
\* never ends the process; and the step in which the process exits undoes
\* nothing that exists.
C5_FailFast ==
    /\ [](\A i \in DOMAIN log :
            (log[i].kind = "cmd" /\ log[i].rc # 0) =>
                IF log[i].check
                THEN /\ i = Len(log)
                     /\ pc = "exited"
                     /\ ("error" \in out) = ~log[i].live
                ELSE ~(pc = "exited" /\ i = Len(log)))
    /\ [][pc' = "exited" => NoRollback]_vars

C5_Witness ==
    /\ pc = "exited"
    /\ log # <<>>
    /\ LastEntry.live /\ LastEntry.check /\ LastEntry.rc # 0
    /\ "error" \notin out
    /\ \E i \in DOMAIN log : log[i].op = "git init -b main" /\ log[i].rc = 0
    /\ \E i \in DOMAIN log : log[i].kind = "cmd" /\ ~log[i].check /\ log[i].rc # 0
    /\ fs.git

\* C6: if .git exists when initialize_local_repo is called, git init is not
\* invoked and the step reports that the repository already exists; git init
\* is invoked exactly when .git does not exist.
C6_InitSkippedIfGitExists ==
    [][ pc = "initialize_local_repo" =>
          IF fs.git
          THEN /\ log' = log
               /\ "git_exists" \in out'
               /\ pc' = "create_basic_files"
          ELSE /\ Len(log') = Len(log) + 1
               /\ log'[Len(log')].op = "git init -b main"
               /\ "git_exists" \notin out' ]_vars

C6_Witness ==
    /\ pc = "create_basic_files"
    /\ fs.git
    /\ "git_exists" \in out
    /\ \A i \in DOMAIN log : log[i].op # "git init -b main"

\* C7: the visibility passed to repository creation is public or private: the
\* trimmed, lower-cased input when that is public or private, and public for
\* every other input, the empty one included.
C7_EffectiveVisibility ==
    \A i \in DOMAIN log :
        log[i].op = "gh repo create" =>
            LET v == lower(strip(visInput)) IN
            /\ log[i].vis \in {PUBLIC, PRIVATE}
            /\ v = PUBLIC => log[i].vis = PUBLIC
            /\ v = PRIVATE => log[i].vis = PRIVATE
            /\ v \notin {PUBLIC, PRIVATE} => log[i].vis = PUBLIC
            /\ visInput = <<>> => log[i].vis = PUBLIC

C7_Witness ==
    \E i \in DOMAIN log :
        /\ log[i].op = "gh repo create"
        /\ visInput = <<"i", "n", "t", "e", "r", "n", "a", "l">>
        /\ log[i].vis = PUBLIC

\* C8: the steps of a run are entered in the fixed order, each after the
\* previous one returned, none twice and none before the tool-availability
\* check.
C8_FixedOrder ==
    /\ Len(steps) <= Len(StepOrder)
    /\ steps = SubSeq(StepOrder, 1, Len(steps))
    /\ pc \notin {"main", "done", "exited"} => pc = StepOrder[Len(steps) + 1]
    /\ pc = "main" => steps = <<>>
    /\ pc = "done" => steps = StepOrder

C8_Witness ==
    /\ pc = "done"
    /\ steps = StepOrder
    /\ runNo = 2

\* C9: a failed download is reported and never aborts the run: whatever the
\* downloads did, create_basic_files goes on to the LICENSE and README.md
\* checks and main goes on to remote authentication.
C9_DownloadFailureNotFatal ==
    [][ pc = "create_basic_files" =>
          /\ pc' = "github_auth"
          /\ fs.license = "absent" =>
                \E i \in DOMAIN log' : log'[i].op = "urlretrieve LICENSE"
          /\ fs.readme = "absent" =>
                (fs'.readme = "generated" /\ "readme_created" \in out')
          /\ \A i \in DOMAIN log' :
                (i > Len(log) /\ log'[i].kind = "download" /\ log'[i].rc # 0) =>
                    IF log'[i].op = "urlretrieve .gitignore"
                    THEN "download_failed .gitignore" \in out'
                    ELSE "download_failed LICENSE" \in out' ]_vars

C9_Witness ==
    /\ pc = "github_auth"
    /\ "download_failed .gitignore" \in out
    /\ "download_failed LICENSE" \in out
    /\ "readme_created" \in out

\* C10: gh auth login is invoked only right after a gh auth status that
\* exited nonzero; git add, git commit and gh repo create are invoked only
\* after a status check or a login that exited zero; a failed login ends the
\* run before any of them.
C10_AuthBeforeRepo ==
    /\ \A i \in DOMAIN log :
          log[i].op = "gh auth login" =>
              /\ i > 1
              /\ log[i - 1].op = "gh auth status"
              /\ log[i - 1].rc # 0
    /\ \A i \in DOMAIN log :
          log[i].op \in {"git add .", "git commit", "gh repo create"} =>
              \E j \in 1..(i - 1) :
                  /\ log[j].op \in {"gh auth status", "gh auth login"}
                  /\ log[j].rc = 0
    /\ \A i \in DOMAIN log :
          (log[i].op = "gh auth login" /\ log[i].rc # 0) =>
              (i = Len(log) /\ pc = "exited")

C10_Witness ==
    \E i, j \in DOMAIN log :
        /\ i < j
        /\ log[i].op = "gh auth login" /\ log[i].rc = 0
        /\ log[j].op = "gh repo create"

====
